---- MODULE Spec2Model ----
(***************************************************************************)
(* Model of the relevance pipeline of src/confluence.py (ConfluenceV2):    *)
(* worker pool -> aggregation -> ranking -> word-budgeted packing.         *)
(*                                                                         *)
(* Texts are modelled by their sequence of whitespace-separated words      *)
(* (str.split()); word i of a file's content is the number i.  Scores are  *)
(* integers in thousandths; a combined relevance score is kept as its      *)
(* numerator over the run-wide denominator (10 + keyword_boost in tenths). *)
(***************************************************************************)
EXTENDS Integers, Sequences, FiniteSets, TLC

(* ------------------------------ bounds --------------------------------- *)
MaxFiles == 3
MaxContentWords == 2
MaxBudget == 24
MaxFileSize == 4
MaxOccurrences == 2
MaxLines == 2

(* -------------------------- program constants -------------------------- *)
\* FLATTENED_FILE_HEADER_TEMPLATE: "---", "FILE:", "(Language:", "(Relevance:",
\* "x.xxx)", "(Size:", "y.yKB)", "---" are its words besides path and language.
HeaderTemplateWords == 8
\* "... [CONTENT TRUNCATED DUE TO TOKEN LIMITS (N words max)] ..." is 11 words.
TruncationMarkerWords == 11
\* DEFAULT_KEYWORD_BOOST = 1.5, in tenths.
DEFAULT_KEYWORD_BOOST == 15
\* DEFAULT_SIMILARITY_THRESHOLD = 0.05, in thousandths.
DEFAULT_SIMILARITY_THRESHOLD == 50

VARIABLES
    pc,                                   \* position of main_cli
    search_prompt_or_file_path,           \* the prompt argument
    actual_search_prompt_content,         \* None or the stripped prompt
    similarity_threshold,                 \* thousandths
    max_flat_tokens,
    candidate_paths,                      \* discovery order
    initial_skipped_files_info,           \* Rule Engine rejections
    pool_results,                         \* starmap's result list, one slot per task
    all_processed_or_skipped_metadata,
    final_llm_context_files,              \* in_context
    other_cataloged_files_summary,        \* cataloged_only
    pack_pos,                             \* index of the packing loop
    current_word_count_for_flat_output,
    flat_content_parts_list,
    prompt_tfidf_vector_global,           \* None or the fitted prompt vector
    loader_file,                          \* the file handed to the loader
    loader_out,                           \* what the loader call returned
    scan_tree,                            \* what lies under the scan root, in rglob order
    ignore_dir,                           \* --ignore-dir names
    unreadable_dir,                       \* a directory that cannot be listed, or ""
    cli_args,                             \* preset, include_ext and exclude_ext of the run
    all_items_in_scan_root,               \* what rglob yielded
    scan_index                            \* position of the classification loop

vars == <<pc, search_prompt_or_file_path, actual_search_prompt_content, similarity_threshold, max_flat_tokens,
          candidate_paths, initial_skipped_files_info, pool_results,
          all_processed_or_skipped_metadata, final_llm_context_files,
          other_cataloged_files_summary, pack_pos,
          current_word_count_for_flat_output, flat_content_parts_list,
          prompt_tfidf_vector_global, loader_file, loader_out, scan_tree,
          ignore_dir, unreadable_dir, cli_args, all_items_in_scan_root,
          scan_index>>

\* The state of the loader calls and of the discovery walk.
loader_vars == <<loader_file, loader_out>>
discovery_vars == <<scan_tree, ignore_dir, unreadable_dir, cli_args,
                    all_items_in_scan_root,
                    scan_index>>

(* ------------------------------ helpers -------------------------------- *)
\* Relative paths are numbered in ascending string order.
Paths == 1..MaxFiles

None == "None"
Absent == -1

Min(a, b) == IF a <= b THEN a ELSE b

Range(s) == {s[i] : i \in 1..Len(s)}

InjectiveSeqs(S) ==
    UNION {{s \in [1..n -> S] : \A i, j \in 1..n : i # j => s[i] # s[j]} :
           n \in 0..Cardinality(S)}

RECURSIVE SelectSeqIdx(_, _)
\* The indices i of s, ascending, for which keep[i].
SelectSeqIdx(n, keep) ==
    IF n = 0 THEN <<>>
    ELSE IF keep[n] THEN Append(SelectSeqIdx(n - 1, keep), n)
         ELSE SelectSeqIdx(n - 1, keep)

\* The words of a text of c words: word i is the number i.
Words(c) == [i \in 1..c |-> i]

\* approximate_word_count: len(text.split()).
approximate_word_count(words) == Len(words)

\* Denominator shared by every combined score of a run.
ScoreDenominator(keyword_boost_factor) == 10 + keyword_boost_factor

(* --------------------------- the filesystem ---------------------------- *)
\* How a stat() or an open()/read() of a file ends: "ok" or the exception.
IoOutcomes == {"ok", "FileNotFoundError", "PermissionError", "OSError"}

\* chardet's verdict on the bytes: no guess, a codec that decodes them, a
\* codec that fails on them, or a codec name Python does not know.
DetectedEncodings == {"none", "decodes", "UnicodeDecodeError", "LookupError"}

\* What a worker can find at a candidate path.  stat/open outcomes are the
\* exceptions of read_file_content_robust; scores are what the vectorizer and
\* the keyword matcher return for the processed text, in thousandths.
File(stat, size, words, sim, kw) ==
    [stat |-> stat, size |-> size, open |-> "ok",
     detected_encoding |-> "decodes", utf8_ok |-> TRUE,
     processed_words |-> words,
     primary_sim_score |-> sim, keyword_sim_score |-> kw]

FileCases ==
    { File("ok", MaxFileSize + 1, MaxContentWords, 400, 0),        \* too large
      File("FileNotFoundError", 0, 0, 0, 0),                       \* vanished
      File("ok", 0, 0, 0, 0),                                      \* empty
      File("ok", 1, 1, 30, 0),                                     \* 0.012
      File("ok", MaxFileSize, MaxContentWords, 400, 0),            \* 0.160
      File("ok", 2, 1, 0, 640) }                                   \* 0.384

\* Words the header template receives from the path and the language name.
RelativePathWords(path) == IF path % 2 = 0 THEN 2 ELSE 1
LanguageWords(path) == 1

(* ------------------------------ the loader ----------------------------- *)
\* Variant: the except chain without its last, catch-all clause.
ReadErrorStatus_NoCatchAll(exception) ==
    IF exception = "FileNotFoundError" THEN "skipped_read_error_not_found"
    ELSE IF exception = "PermissionError" THEN "skipped_read_error_permission"
    ELSE "raised"

\* The except chain of read_file_content_robust.
ReadErrorStatus(exception) ==
    IF exception = "FileNotFoundError" THEN "skipped_read_error_not_found"
    ELSE IF exception = "PermissionError" THEN "skipped_read_error_permission"
    ELSE "skipped_read_error_generic"

\* Does read_file_content_robust get as far as open()/read()?
OpensFile(file, max_file_size) ==
    /\ file.stat = "ok"
    /\ file.size <= max_file_size
    /\ file.size # 0

\* read_file_content_robust: <<word count of the text or Absent (None), status>>.
\* Latin-1 decodes any bytes, so the fallback chain ends there.
read_file_content_robust(file, max_file_size) ==
    IF file.stat # "ok" THEN <<Absent, ReadErrorStatus(file.stat)>>
    ELSE IF file.size > max_file_size THEN <<Absent, "skipped_size">>
    ELSE IF file.size = 0 THEN <<0, "processed_empty">>
    ELSE IF file.open # "ok" THEN <<Absent, ReadErrorStatus(file.open)>>
    ELSE IF file.detected_encoding = "decodes"
         THEN <<file.processed_words, "ok_detected_encoding">>
    ELSE IF file.detected_encoding = "LookupError"
         THEN <<Absent, ReadErrorStatus("LookupError")>>
    ELSE IF file.utf8_ok THEN <<file.processed_words, "ok_fallback_UTF-8">>
    ELSE <<file.processed_words, "ok_fallback_Latin-1">>

\* get_file_metadata: size_bytes is -1 when stat fails.
get_file_metadata(path, file) ==
    [kind |-> "worker",
     path |-> path,
     reason |-> "",
     size_bytes |-> IF file.stat = "ok" THEN file.size ELSE -1,
     overall_processing_status |-> "",
     relevance_score |-> Absent,
     similarity_score |-> Absent,
     keyword_score |-> Absent,
     match_type |-> "",
     full_content |-> Absent,
     rank_in_llm_context |-> 0,
     full_content_included_in_flat |-> "unset"]

\* get_processed_file_data: <<processed content or Absent, metadata, status>>.
get_processed_file_data(path, file, max_f_size) ==
    LET metadata == get_file_metadata(path, file)
        read == read_file_content_robust(file, max_f_size)
    IN  IF metadata.size_bytes # -1 /\ metadata.size_bytes > max_f_size
        THEN <<Absent, metadata, "skipped_size_limit">>
        ELSE IF read[1] = Absent THEN <<Absent, metadata, read[2]>>
        ELSE IF read[2] = "processed_empty" THEN <<0, metadata, "processed_empty">>
        ELSE <<read[1], metadata, "processed_content_ok">>

\* Is the file's body read on the way through get_processed_file_data?
BodyRead(file, max_f_size) ==
    /\ ~(file.stat = "ok" /\ file.size > max_f_size)
    /\ OpensFile(file, max_f_size)

(* ------------------------------ the scorer ----------------------------- *)
\* Label thresholds of calculate_relevance_scores_for_content, in thousandths.
primary_sim_threshold_for_label == 20
keyword_sim_threshold_for_label == 50

\* extract_search_prompt_keywords: how many keywords the prompt yields.  The
\* prompt "x" has no token of two letters or more and yields none.
extract_search_prompt_keywords(search_prompt_content) ==
    IF search_prompt_content = "q" THEN 1 ELSE 0

\* The vectorizer fitted again on the file's text.
tfidf_vectorizer_after_transform_Refit(vector) ==
    IF vector = None THEN None ELSE "refit"

\* Line 678: tfidf_vectorizer_global.transform() reads the fitted vectorizer
\* and the prompt vector and leaves both as they are.
tfidf_vectorizer_after_transform(vector) == vector

\* calculate_tfidf_cosine_similarity: 0.0 when the prompt vector is missing.
calculate_tfidf_cosine_similarity(file) ==
    IF prompt_tfidf_vector_global = None THEN 0 ELSE file.primary_sim_score

\* calculate_keyword_score: 0.0 without keywords.
calculate_keyword_score(file, keywords) ==
    IF keywords = 0 THEN 0 ELSE file.keyword_sim_score

\* The weighted average taken only when both scores are meaningful.
weighted_combined_score_BothMeaningful(sim, kw, keyword_boost_factor) ==
    IF sim > 1 /\ kw > 1 THEN 10 * sim + kw * keyword_boost_factor ELSE 0

\* Lines 778-786: the numerator of (sim + kw*boost)/(1 + boost) when a score
\* is above 0.001, else 0.0.
weighted_combined_score(sim, kw, keyword_boost_factor) ==
    IF sim > 1 \/ kw > 1 THEN 10 * sim + kw * keyword_boost_factor ELSE 0

\* calculate_relevance_scores_for_content with a search prompt, "fast" mode:
\* <<combined, primary similarity, keyword score, match type>>, the combined
\* score being the numerator of min((sim + kw*boost)/(1 + boost), 1.0) over
\* ScoreDenominator(boost).
calculate_relevance_scores_for_content(content, file, keywords, keyword_boost_factor) ==
    IF content = 0 THEN <<0, 0, 0, "no_content_to_score">>
    ELSE LET sim == calculate_tfidf_cosine_similarity(file)
             kw == calculate_keyword_score(file, keywords)
             combined == weighted_combined_score(sim, kw, keyword_boost_factor)
             has_primary == sim >= primary_sim_threshold_for_label
             has_keyword == kw >= keyword_sim_threshold_for_label
             match_type == IF has_primary /\ has_keyword THEN "tfidf_and_keyword"
                           ELSE IF has_keyword THEN "keyword_dominant"
                           ELSE IF has_primary THEN "tfidf_dominant"
                           ELSE IF combined = 0 THEN "no_discernible_match"
                           ELSE "low_scores_no_dominant_match_type"
         IN  <<Min(combined, 1000 * ScoreDenominator(keyword_boost_factor)),
               sim, kw, match_type>>

\* combined_score < similarity_threshold, on numerators.
BelowThreshold(score, threshold, keyword_boost_factor) ==
    score < threshold * ScoreDenominator(keyword_boost_factor)

(* ------------------------------ the worker ----------------------------- *)
\* Variant: only the combined score is stored.
WithScores_RelevanceOnly(metadata, scores) ==
    [metadata EXCEPT !.relevance_score = scores[1]]

\* metadata.update({"relevance_score": ..., "similarity_score": ...,
\* "keyword_score": ..., "match_type": ...})
WithScores(metadata, scores) ==
    [metadata EXCEPT !.relevance_score = scores[1],
                     !.similarity_score = scores[2],
                     !.keyword_score = scores[3],
                     !.match_type = scores[4]]

\* process_single_file_task_worker: the metadata dict it returns.
process_single_file_task_worker(path, file, search_prompt_val, threshold) ==
    LET data == get_processed_file_data(path, file, MaxFileSize)
        processed_content == data[1]
        metadata == [data[2] EXCEPT !.overall_processing_status = data[3]]
        scores ==
            calculate_relevance_scores_for_content(processed_content, file,
                extract_search_prompt_keywords(search_prompt_val),
                DEFAULT_KEYWORD_BOOST)
        combined_score == scores[1]
    IN  IF processed_content = Absent THEN metadata
        ELSE IF search_prompt_val # None
        THEN IF BelowThreshold(combined_score, threshold, DEFAULT_KEYWORD_BOOST)
             THEN [WithScores(metadata, scores) EXCEPT
                      !.overall_processing_status = "skipped_low_relevance"]
             \* (the status string also carries the score, kept in relevance_score)
             ELSE [WithScores(metadata, scores) EXCEPT
                      !.full_content = processed_content]
        ELSE [WithScores(metadata, <<0, 0, 0, "not_scored_no_search_prompt">>) EXCEPT
                 !.full_content = processed_content]

(* ------------------------- prompt and discovery ------------------------ *)
\* The command-line prompt argument: missing, blank, or a real prompt.
PromptArgs == {None, "blank", "q"}

\* A prompt without any token of two letters or more: no vocabulary.
UnbuildablePrompts == {"x"}

\* Variant: the prompt argument is dropped.
ActualSearchPrompt_Dropped(prompt_arg) == None

\* main_cli, "Handle Search Prompt": a blank prompt counts as no prompt.
ActualSearchPrompt(prompt_arg) ==
    IF prompt_arg \in {None, "blank"} THEN None
    ELSE prompt_arg

\* initialize_nlp_resources: the prompt's TF-IDF vector; fit_transform raises
\* on an empty vocabulary and the vector is then None.
initialize_nlp_resources(search_prompt_content) ==
    IF search_prompt_content = None THEN None
    ELSE IF search_prompt_content \in UnbuildablePrompts THEN None
    ELSE "vector"

DiscoveryOutcomes == {"candidate", "ignored_directory", "no_matching_include_rule"}

\* An entry of FileProcessor.initial_skipped_files_info.
SkippedInfo(path, reason) ==
    [kind |-> "discovery",
     path |-> path,
     reason |-> reason,
     size_bytes |-> 1,
     overall_processing_status |-> "",
     relevance_score |-> Absent,
     similarity_score |-> Absent,
     keyword_score |-> Absent,
     match_type |-> "",
     full_content |-> Absent,
     rank_in_llm_context |-> 0,
     full_content_included_in_flat |-> "unset"]

PendingResult == [kind |-> "pending"]
NoResult == [kind |-> "none"]

\* Variant: only results that carry content are kept.
Truthy_NeedsContent(result_meta) ==
    /\ result_meta.kind # "none"
    /\ result_meta.full_content # Absent

\* `if result_meta:` -- None and an empty dict are dropped.
Truthy(result_meta) == result_meta.kind # "none"

(* ------------------------------- sorting ------------------------------- *)
RECURSIVE InsertByKey(_, _)
\* Insert x after every element whose key is <= x.key (keeps equal keys in
\* arrival order, as list.sort does).
InsertByKey(sorted, x) ==
    IF sorted = <<>> THEN <<x>>
    ELSE IF Head(sorted).key <= x.key
         THEN <<Head(sorted)>> \o InsertByKey(Tail(sorted), x)
         ELSE <<x>> \o sorted

RECURSIVE StableSort(_)
StableSort(keyed) ==
    IF keyed = <<>> THEN <<>>
    ELSE InsertByKey(StableSort(SubSeq(keyed, 1, Len(keyed) - 1)), keyed[Len(keyed)])

\* list.sort(key=..., reverse=...), keys[i] being the key of items[i]:
\* stable in both directions.
ListSort(items, keys, reverse) ==
    LET keyed == [i \in 1..Len(items) |->
                    [key |-> IF reverse THEN 0 - keys[i] ELSE keys[i],
                     item |-> items[i]]]
        sorted == StableSort(keyed)
    IN  [i \in 1..Len(items) |-> sorted[i].item]

\* The sort keys: relevance_score (0.0 when missing) and the path.
RelevanceKeys(files) == [i \in 1..Len(files) |->
    IF files[i].relevance_score = Absent THEN 0 ELSE files[i].relevance_score]
PathKeys(files) == [i \in 1..Len(files) |-> files[i].path]

(* ----------------------------- the aggregator -------------------------- *)
\* item_metadata.get("overall_processing_status", "unknown_status_missing")
StatusOf(item_metadata) ==
    IF item_metadata.overall_processing_status = "" THEN "unknown_status_missing"
    ELSE item_metadata.overall_processing_status

\* item_metadata.get("relevance_score", 0.0)
RelevanceOf(item_metadata) ==
    IF item_metadata.relevance_score = Absent THEN 0 ELSE item_metadata.relevance_score

\* Variant: an empty file does not count as processed.
is_content_processed_successfully_NoEmpty(status) ==
    status \in {"processed_content_ok", "processed_content_fallback_raw"}

is_content_processed_successfully(status) ==
    status \in {"processed_content_ok", "processed_empty", "processed_content_fallback_raw"}

\* Does the partition loop put the item in final_llm_context_files?
GoesToContext(item_metadata, prompt, threshold) ==
    /\ is_content_processed_successfully(StatusOf(item_metadata))
    /\ \/ prompt = None
       \/ ~BelowThreshold(RelevanceOf(item_metadata), threshold, DEFAULT_KEYWORD_BOOST)

\* The item as the partition loop leaves it in other_cataloged_files_summary.
Cataloged(item_metadata, prompt) ==
    IF /\ is_content_processed_successfully(StatusOf(item_metadata))
       /\ prompt # None
    THEN [item_metadata EXCEPT !.overall_processing_status = "info_processed_below_threshold"]
    ELSE item_metadata

\* Variant: the relevance sort without reverse=True.
SortContext_Ascending(files, prompt) ==
    IF prompt # None
    THEN ListSort(files, RelevanceKeys(files), FALSE)
    ELSE ListSort(files, PathKeys(files), FALSE)

SortContext(files, prompt) ==
    IF prompt # None
    THEN ListSort(files, RelevanceKeys(files), TRUE)
    ELSE ListSort(files, PathKeys(files), FALSE)

AssignRanks(files) ==
    [i \in 1..Len(files) |-> [files[i] EXCEPT !.rank_in_llm_context = i]]

SortCatalog(files) == ListSort(files, PathKeys(files), FALSE)

(* ------------------------------- the packer ---------------------------- *)
\* approximate_word_count(FLATTENED_FILE_HEADER_TEMPLATE.format(...))
header_word_count(item_meta_data) ==
    HeaderTemplateWords + RelativePathWords(item_meta_data.path)
                        + LanguageWords(item_meta_data.path)

\* Variant: the header's words are left out of the fit test.
FitsInFull_NoHeader(count, header_words, content_words, budget) ==
    count + content_words <= budget

\* First branch of the packing loop: the whole entry fits.
FitsInFull(count, header_words, content_words, budget) ==
    count + header_words + content_words <= budget

\* Second branch: the header fits with room to spare.
FitsHeader(count, header_words, budget) ==
    count + header_words < budget

\* Variant: the cut keeps one word more than the room left.
TruncatedEntry_OneMore(path, content_words, remaining) ==
    [path |-> path,
     content |-> SubSeq(Words(content_words), 1, Min(remaining + 1, content_words)),
     marker |-> content_words > remaining]

\* The truncated entry: the first `remaining` words, and the marker when
\* words were cut.
TruncatedEntry(path, content_words, remaining) ==
    [path |-> path,
     content |-> SubSeq(Words(content_words), 1, Min(remaining, content_words)),
     marker |-> content_words > remaining]

FullEntry(path, content_words) ==
    [path |-> path, content |-> Words(content_words), marker |-> FALSE]

\* approximate_word_count of an entry's content string.
EntryContentWords(entry) ==
    approximate_word_count(entry.content)
        + (IF entry.marker THEN TruncationMarkerWords ELSE 0)

\* Variant: the full branch advances the count by the content alone.
IncludedOutcome_ContentOnly(count, header_words, content_words) ==
    [count |-> count + content_words, stop |-> FALSE]

\* Bookkeeping at the end of each branch: the new count and whether the loop breaks.
IncludedOutcome(count, header_words, content_words) ==
    [count |-> count + header_words + content_words, stop |-> FALSE]

\* Variant: the partial branch neither advances the count nor breaks.
PartialOutcome_NoBookkeeping(count, header_words, truncated_words) ==
    [count |-> count, stop |-> FALSE]

PartialOutcome(count, header_words, truncated_words) ==
    [count |-> count + header_words + truncated_words, stop |-> TRUE]

\* Variant: the header-does-not-fit branch moves on to the next record.
ExcludedOutcome_Continue(count) ==
    [count |-> count, stop |-> FALSE]

ExcludedOutcome(count) ==
    [count |-> count, stop |-> TRUE]

\* One iteration of the packing loop over final_llm_context_files[pos]:
\* the tag, the entry appended (if any), the new count, and break-or-not.
PackStep(item, count, budget) ==
    LET h == header_word_count(item)
        c == approximate_word_count(Words(item.full_content))
    IN  IF item.full_content = Absent
        THEN [tag |-> "error_missing_content", entries |-> <<>>,
              count |-> count, stop |-> FALSE]
        ELSE IF FitsInFull(count, h, c, budget)
        THEN LET out == IncludedOutcome(count, h, c)
             IN  [tag |-> "True", entries |-> <<FullEntry(item.path, c)>>,
                  count |-> out.count, stop |-> out.stop]
        ELSE IF FitsHeader(count, h, budget)
        THEN LET entry == TruncatedEntry(item.path, c, budget - count - h)
                 out == PartialOutcome(count, h, EntryContentWords(entry))
             IN  [tag |-> "partial_due_to_token_limit", entries |-> <<entry>>,
                  count |-> out.count, stop |-> out.stop]
        ELSE LET out == ExcludedOutcome(count)
             IN  [tag |-> "False", entries |-> <<>>,
                  count |-> out.count, stop |-> out.stop]

(* ------------------------------- main_cli ------------------------------ *)
ThresholdChoices == {0, DEFAULT_SIMILARITY_THRESHOLD}

\* No loader call and no discovery walk is under way.
NoFile == [stat |-> "none"]
NoOutput == [call |-> "none"]
LoaderIdle ==
    /\ loader_file = NoFile
    /\ loader_out = NoOutput
DEFAULT_PRESET_NAME == "project_wide"

\* The filter options of a run started without --preset, --include-ext
\* and --exclude-ext; an option that is not given has no items.
DefaultCliArgs ==
    [preset |-> DEFAULT_PRESET_NAME, include_ext |-> <<>>, exclude_ext |-> <<>>]

DiscoveryIdle ==
    /\ scan_tree = <<>>
    /\ ignore_dir = <<>>
    /\ unreadable_dir = ""
    /\ cli_args = DefaultCliArgs
    /\ all_items_in_scan_root = <<>>
    /\ scan_index = 0

Init ==
    /\ pc = "start"
    /\ search_prompt_or_file_path \in PromptArgs
    /\ actual_search_prompt_content = None
    /\ similarity_threshold \in ThresholdChoices
    /\ max_flat_tokens = MaxBudget
    /\ candidate_paths = <<>>
    /\ initial_skipped_files_info = <<>>
    /\ pool_results = <<>>
    /\ all_processed_or_skipped_metadata = <<>>
    /\ final_llm_context_files = <<>>
    /\ other_cataloged_files_summary = <<>>
    /\ pack_pos = 0
    /\ current_word_count_for_flat_output = 0
    /\ flat_content_parts_list = <<>>
    /\ prompt_tfidf_vector_global = None
    /\ LoaderIdle
    /\ DiscoveryIdle

\* Lines 1329-1381: the effective prompt; the Query Model is built here, once,
\* and the run goes on to discovery whether or not the build succeeded.
HandleSearchPrompt ==
    /\ pc = "start"
    /\ actual_search_prompt_content' = ActualSearchPrompt(search_prompt_or_file_path)
    /\ prompt_tfidf_vector_global' =
           initialize_nlp_resources(actual_search_prompt_content')
    \* a missing vector is only logged (lines 1374-1381)
    /\ pc' = "discovery"
    /\ UNCHANGED <<search_prompt_or_file_path, similarity_threshold, max_flat_tokens,
                   candidate_paths, initial_skipped_files_info, pool_results,
                   all_processed_or_skipped_metadata, final_llm_context_files,
                   other_cataloged_files_summary, pack_pos,
                   current_word_count_for_flat_output, flat_content_parts_list>>
    /\ UNCHANGED <<loader_vars, discovery_vars>>

\* Variant: the metadata list starts empty.
SeedMetadata_Empty(skipped_files_info) == <<>>

\* Line 1400: the metadata list starts as a copy of the rejections.
SeedMetadata(skipped_files_info) == skipped_files_info

\* Lines 1384-1423: discovery in scan order, the rejections seed the metadata
\* list, and one task per candidate is handed to the pool.
Discover ==
    /\ pc = "discovery"
    /\ \E scan \in {q \in InjectiveSeqs(Paths) : Len(q) = MaxFiles},
          outcome \in [Paths -> DiscoveryOutcomes] :
          LET cand == SelectSeqIdx(MaxFiles, [i \in 1..MaxFiles |->
                                     outcome[scan[i]] = "candidate"])
              rej == SelectSeqIdx(MaxFiles, [i \in 1..MaxFiles |->
                                     outcome[scan[i]] # "candidate"])
          IN  /\ candidate_paths' = [k \in 1..Len(cand) |-> scan[cand[k]]]
              /\ initial_skipped_files_info' =
                     [k \in 1..Len(rej) |->
                         SkippedInfo(scan[rej[k]], outcome[scan[rej[k]]])]
              /\ pool_results' = [k \in 1..Len(cand) |-> PendingResult]
              /\ pc' = IF cand = <<>> THEN "aggregate" ELSE "pool"
    /\ all_processed_or_skipped_metadata' =
           SeedMetadata(initial_skipped_files_info')
    /\ UNCHANGED <<search_prompt_or_file_path, actual_search_prompt_content,
                   similarity_threshold, max_flat_tokens, final_llm_context_files,
                   other_cataloged_files_summary, pack_pos,
                   current_word_count_for_flat_output, flat_content_parts_list>>
    /\ UNCHANGED <<prompt_tfidf_vector_global, loader_vars, discovery_vars>>

\* Variant: results are kept in completion order (as imap_unordered would).
StoreResult_CompletionOrder(results, task, result_meta) ==
    LET free == CHOOSE k \in 1..Len(results) :
                    /\ results[k].kind = "pending"
                    /\ \A j \in 1..(k - 1) : results[j].kind # "pending"
    IN  [results EXCEPT ![free] = result_meta]

\* pool.starmap keeps each task's result in the task's own slot.
StoreResult(results, task, result_meta) ==
    [results EXCEPT ![task] = result_meta]

\* A worker process runs task `task` to completion, whenever it gets to it.
WorkerTask(task) ==
    /\ pc = "pool"
    /\ task \in 1..Len(pool_results)
    /\ pool_results[task].kind = "pending"
    /\ \E file \in FileCases :
          pool_results' = StoreResult(pool_results, task,
              process_single_file_task_worker(candidate_paths[task], file,
                  actual_search_prompt_content, similarity_threshold))
    /\ UNCHANGED <<pc, search_prompt_or_file_path, actual_search_prompt_content,
                   similarity_threshold, max_flat_tokens, candidate_paths,
                   initial_skipped_files_info, all_processed_or_skipped_metadata,
                   final_llm_context_files, other_cataloged_files_summary, pack_pos,
                   current_word_count_for_flat_output, flat_content_parts_list>>
    /\ prompt_tfidf_vector_global' =
           tfidf_vectorizer_after_transform(prompt_tfidf_vector_global)
    /\ UNCHANGED <<loader_vars, discovery_vars>>

RaisedResult == [kind |-> "raised"]
LostResult == [kind |-> "lost"]

\* An exception escapes the worker function.  starmap re-raises it in
\* main_cli, which does not catch it: the run ends, and the result list is
\* never returned, so what the other tasks produced is lost with it.
WorkerRaises(task) ==
    /\ pc = "pool"
    /\ task \in 1..Len(pool_results)
    /\ pool_results[task].kind = "pending"
    /\ pool_results' = [k \in 1..Len(pool_results) |->
                           IF k = task THEN RaisedResult ELSE LostResult]
    /\ pc' = "aborted"
    /\ UNCHANGED <<search_prompt_or_file_path, actual_search_prompt_content,
                   similarity_threshold, max_flat_tokens, candidate_paths,
                   initial_skipped_files_info,
                   all_processed_or_skipped_metadata, final_llm_context_files,
                   other_cataloged_files_summary, pack_pos,
                   current_word_count_for_flat_output, flat_content_parts_list>>
    /\ UNCHANGED <<prompt_tfidf_vector_global, loader_vars, discovery_vars>>

\* Lines 1433-1442: starmap returns once every task is done; the truthy
\* results are appended in list order.
CollectResults ==
    /\ pc = "pool"
    /\ \A k \in 1..Len(pool_results) : pool_results[k].kind # "pending"
    /\ all_processed_or_skipped_metadata' =
           all_processed_or_skipped_metadata \o SelectSeq(pool_results, Truthy)
    /\ pc' = "aggregate"
    /\ UNCHANGED <<search_prompt_or_file_path, actual_search_prompt_content,
                   similarity_threshold, max_flat_tokens, candidate_paths,
                   initial_skipped_files_info, pool_results,
                   final_llm_context_files, other_cataloged_files_summary, pack_pos,
                   current_word_count_for_flat_output, flat_content_parts_list>>
    /\ UNCHANGED <<prompt_tfidf_vector_global, loader_vars, discovery_vars>>

\* Lines 1444-1471: the partition loop.
Aggregate ==
    /\ pc = "aggregate"
    /\ LET all == all_processed_or_skipped_metadata
           InCtx(x) == GoesToContext(x, actual_search_prompt_content,
                                     similarity_threshold)
           NotInCtx(x) == ~InCtx(x)
           rest == SelectSeq(all, NotInCtx)
       IN  /\ final_llm_context_files' = SelectSeq(all, InCtx)
           /\ other_cataloged_files_summary' =
                  [k \in 1..Len(rest) |->
                      Cataloged(rest[k], actual_search_prompt_content)]
    /\ pc' = "sort"
    /\ UNCHANGED <<search_prompt_or_file_path, actual_search_prompt_content,
                   similarity_threshold, max_flat_tokens, candidate_paths,
                   initial_skipped_files_info, pool_results,
                   all_processed_or_skipped_metadata, pack_pos,
                   current_word_count_for_flat_output, flat_content_parts_list>>
    /\ UNCHANGED <<prompt_tfidf_vector_global, loader_vars, discovery_vars>>

\* Lines 1473-1485: sort, rank, sort the catalog; then the packing loop starts.
SortAndRank ==
    /\ pc = "sort"
    /\ final_llm_context_files' =
           AssignRanks(SortContext(final_llm_context_files,
                                   actual_search_prompt_content))
    /\ other_cataloged_files_summary' = SortCatalog(other_cataloged_files_summary)
    /\ pack_pos' = 1
    /\ pc' = "packing"
    /\ UNCHANGED <<search_prompt_or_file_path, actual_search_prompt_content,
                   similarity_threshold, max_flat_tokens, candidate_paths,
                   initial_skipped_files_info, pool_results,
                   all_processed_or_skipped_metadata,
                   current_word_count_for_flat_output, flat_content_parts_list>>
    /\ UNCHANGED <<prompt_tfidf_vector_global, loader_vars, discovery_vars>>

\* Lines 1573-1612: one iteration of the packing loop.
PackRecord ==
    /\ pc = "packing"
    /\ pack_pos <= Len(final_llm_context_files)
    /\ LET step == PackStep(final_llm_context_files[pack_pos],
                            current_word_count_for_flat_output, max_flat_tokens)
       IN  /\ final_llm_context_files' =
                  [final_llm_context_files EXCEPT
                      ![pack_pos].full_content_included_in_flat = step.tag]
           /\ flat_content_parts_list' = flat_content_parts_list \o step.entries
           /\ current_word_count_for_flat_output' = step.count
           /\ pack_pos' = pack_pos + 1
           /\ pc' = IF step.stop THEN "done" ELSE "packing"
    /\ UNCHANGED <<search_prompt_or_file_path, actual_search_prompt_content,
                   similarity_threshold, max_flat_tokens, candidate_paths,
                   initial_skipped_files_info, pool_results,
                   all_processed_or_skipped_metadata, other_cataloged_files_summary>>
    /\ UNCHANGED <<prompt_tfidf_vector_global, loader_vars, discovery_vars>>

\* The loop runs out of records.
PackLoopEnd ==
    /\ pc = "packing"
    /\ pack_pos > Len(final_llm_context_files)
    /\ pc' = "done"
    /\ UNCHANGED <<search_prompt_or_file_path, actual_search_prompt_content,
                   similarity_threshold, max_flat_tokens, candidate_paths,
                   initial_skipped_files_info, pool_results,
                   all_processed_or_skipped_metadata, final_llm_context_files,
                   other_cataloged_files_summary, pack_pos,
                   current_word_count_for_flat_output, flat_content_parts_list>>
    /\ UNCHANGED <<prompt_tfidf_vector_global, loader_vars, discovery_vars>>

Next ==
    \/ HandleSearchPrompt
    \/ Discover
    \/ \E task \in 1..MaxFiles : WorkerTask(task)
    \/ \E task \in 1..MaxFiles : WorkerRaises(task)
    \/ CollectResults
    \/ Aggregate
    \/ SortAndRank
    \/ PackRecord
    \/ PackLoopEnd

Spec == Init /\ [][Next]_vars

\* The same program started with a prompt whose Query Model cannot be built.
QueryModelInit ==
    /\ pc = "start"
    /\ search_prompt_or_file_path \in UnbuildablePrompts
    /\ actual_search_prompt_content = None
    /\ similarity_threshold \in ThresholdChoices
    /\ max_flat_tokens = MaxBudget
    /\ candidate_paths = <<>>
    /\ initial_skipped_files_info = <<>>
    /\ pool_results = <<>>
    /\ all_processed_or_skipped_metadata = <<>>
    /\ final_llm_context_files = <<>>
    /\ other_cataloged_files_summary = <<>>
    /\ pack_pos = 0
    /\ current_word_count_for_flat_output = 0
    /\ flat_content_parts_list = <<>>
    /\ prompt_tfidf_vector_global = None
    /\ LoaderIdle
    /\ DiscoveryIdle

QueryModelSpec == QueryModelInit /\ [][Next]_vars

(* ----------------------- the packer on any input ----------------------- *)
\* A ranked in_context record: processed, scored, content kept.
RankedItem(path, rank, content_words) ==
    [kind |-> "worker",
     path |-> path,
     reason |-> "",
     size_bytes |-> 1,
     overall_processing_status |-> "processed_content_ok",
     relevance_score |-> 4000,
     similarity_score |-> Absent,
     keyword_score |-> Absent,
     match_type |-> "",
     full_content |-> content_words,
     rank_in_llm_context |-> rank,
     full_content_included_in_flat |-> "unset"]

\* The packing stage entered with any ranked sequence (equal scores, so any
\* path order) and any word budget.
PackerInit ==
    /\ pc = "packing"
    /\ search_prompt_or_file_path = "q"
    /\ actual_search_prompt_content = "q"
    /\ similarity_threshold = 0
    /\ max_flat_tokens \in 0..MaxBudget
    /\ candidate_paths \in InjectiveSeqs(Paths)
    /\ initial_skipped_files_info = <<>>
    /\ \E words \in [Paths -> 0..MaxContentWords] :
          final_llm_context_files =
              [k \in 1..Len(candidate_paths) |->
                  RankedItem(candidate_paths[k], k, words[candidate_paths[k]])]
    /\ pool_results = [k \in 1..Len(candidate_paths) |->
                          [final_llm_context_files[k] EXCEPT !.rank_in_llm_context = 0]]
    /\ all_processed_or_skipped_metadata = pool_results
    /\ other_cataloged_files_summary = <<>>
    /\ pack_pos = 1
    /\ current_word_count_for_flat_output = 0
    /\ flat_content_parts_list = <<>>
    /\ prompt_tfidf_vector_global = "vector"
    /\ LoaderIdle
    /\ DiscoveryIdle

PackerNext == PackRecord \/ PackLoopEnd

PackerSpec == PackerInit /\ [][PackerNext]_vars

(* ------------------------ the loader on any file ----------------------- *)
\* Every combination of stat outcome, size, open outcome and encoding verdict.
LoaderFiles ==
    { [stat |-> st, size |-> sz, open |-> op,
       detected_encoding |-> enc, utf8_ok |-> u8,
       processed_words |-> Min(sz, MaxContentWords),
       primary_sim_score |-> 400, keyword_sim_score |-> 0] :
      st \in IoOutcomes, sz \in 0..(MaxFileSize + 1), op \in IoOutcomes,
      enc \in DetectedEncodings, u8 \in BOOLEAN }

\* One candidate file, about to be loaded, in a run with a built Query Model.
LoaderInit ==
    /\ pc = "loader"
    /\ search_prompt_or_file_path = "q"
    /\ actual_search_prompt_content = "q"
    /\ similarity_threshold \in ThresholdChoices
    /\ max_flat_tokens = MaxBudget
    /\ candidate_paths = <<1>>
    /\ initial_skipped_files_info = <<>>
    /\ pool_results = <<PendingResult>>
    /\ all_processed_or_skipped_metadata = <<>>
    /\ final_llm_context_files = <<>>
    /\ other_cataloged_files_summary = <<>>
    /\ pack_pos = 0
    /\ current_word_count_for_flat_output = 0
    /\ flat_content_parts_list = <<>>
    /\ prompt_tfidf_vector_global = "vector"
    /\ loader_file \in LoaderFiles
    /\ loader_out = NoOutput
    /\ DiscoveryIdle

\* read_file_content_robust called on the file.
CallReadFileContentRobust ==
    /\ pc = "loader"
    /\ LET read == read_file_content_robust(loader_file, MaxFileSize)
       IN  loader_out' = [call |-> "read_file_content_robust",
                          content |-> read[1],
                          status |-> read[2],
                          body_read |-> OpensFile(loader_file, MaxFileSize)]
    /\ pc' = "read_done"
    /\ UNCHANGED <<search_prompt_or_file_path, actual_search_prompt_content,
                   similarity_threshold, max_flat_tokens, candidate_paths,
                   initial_skipped_files_info, pool_results,
                   all_processed_or_skipped_metadata, final_llm_context_files,
                   other_cataloged_files_summary, pack_pos,
                   current_word_count_for_flat_output, flat_content_parts_list,
                   prompt_tfidf_vector_global, loader_file, discovery_vars>>

\* The worker run on the file: get_processed_file_data, then scoring and the gate.
CallWorker ==
    /\ pc = "loader"
    /\ LET data == get_processed_file_data(candidate_paths[1], loader_file, MaxFileSize)
       IN  loader_out' = [call |-> "get_processed_file_data",
                          content |-> data[1],
                          status |-> data[3],
                          body_read |-> BodyRead(loader_file, MaxFileSize)]
    /\ pool_results' = StoreResult(pool_results, 1,
           process_single_file_task_worker(candidate_paths[1], loader_file,
               actual_search_prompt_content, similarity_threshold))
    /\ pc' = "worker_done"
    /\ UNCHANGED <<search_prompt_or_file_path, actual_search_prompt_content,
                   similarity_threshold, max_flat_tokens, candidate_paths,
                   initial_skipped_files_info,
                   all_processed_or_skipped_metadata, final_llm_context_files,
                   other_cataloged_files_summary, pack_pos,
                   current_word_count_for_flat_output, flat_content_parts_list,
                   prompt_tfidf_vector_global, loader_file, discovery_vars>>

LoaderNext == CallReadFileContentRobust \/ CallWorker

LoaderSpec == LoaderInit /\ [][LoaderNext]_vars

(* ----------------------------- the rule engine ------------------------- *)
\* str.lower() on the names of the model; every other name is lower case.
Lower(name) ==
    CASE name = "Build" -> "build"
      [] name = "Out" -> "out"
      [] name = ".DS_Store" -> ".ds_store"
      [] name = ".PY" -> ".py"
      [] OTHER -> name

\* str.strip() on the option items of the model.
Strip(name) ==
    CASE name = " notes.bin" -> "notes.bin"
      [] name = " " -> ""
      [] OTHER -> name

\* str.startswith('.') on the option items of the model.
StartsWithDot(name) == name \in {".py", ".PY", ".bin", ".pyc", ".log"}

\* Path.suffix of the file names of the model.
Suffix(name) ==
    CASE name = "a.py" -> ".py"
      [] name = "notes.bin" -> ".bin"
      [] OTHER -> ""

\* Three of the names of DEFAULT_IGNORE_DIRS.
DEFAULT_IGNORE_DIRS == {"build", "tmp", ".DS_Store"}

\* Two of the extensions of GENERAL_EXCLUDE_EXTENSIONS.
GENERAL_EXCLUDE_EXTENSIONS == {".pyc", ".tmp"}

DEFAULT_IGNORE_EXTENSIONS_OVERRIDE_FOR_PRESETS == {".log"}

\* Two items of the project_wide preset, and the special empty preset.
DEFAULT_PRESETS(preset_name) ==
    IF preset_name = "project_wide" THEN {".py", "makefile"} ELSE {}

\* --preset, --include-ext and --exclude-ext as given on the command line,
\* the last two split at the commas.
PresetChoices == {"project_wide", "all_matching_text"}
IncludeExtChoices == {<<>>, <<".PY">>, <<" notes.bin", " ">>, <<"py">>}
ExcludeExtChoices == {<<>>, <<".py", "bin">>}

\* FileProcessor.__init__, step 1: the built-in exclusions and the
\* --exclude-ext items that start with a dot.
active_extension_exclusions(args) ==
    (GENERAL_EXCLUDE_EXTENSIONS \cup DEFAULT_IGNORE_EXTENSIONS_OVERRIDE_FOR_PRESETS)
        \cup {Strip(ext) : ext \in
                 {e \in Range(args.exclude_ext) :
                     Strip(e) # "" /\ StartsWithDot(Strip(e))}}

\* FileProcessor.__init__, step 2: an include list overrides the preset.
match_mode_is_explicit_include(args) == args.include_ext # <<>>

\* The explicit mode with the extension exclusions still applied.
target_match_items_MinusExclusions(args) ==
    IF args.include_ext # <<>>
    THEN {Lower(Strip(item)) : item \in
              {i \in Range(args.include_ext) : Strip(i) # ""}}
            \ active_extension_exclusions(args)
    ELSE IF args.preset = "all_matching_text" THEN {}
    ELSE {Lower(item) : item \in
              {i \in DEFAULT_PRESETS(args.preset) :
                  ~(StartsWithDot(i)
                      /\ Lower(i) \in active_extension_exclusions(args))}}

\* FileProcessor.__init__, step 2: the stripped, lower-cased include items,
\* or nothing for all_matching_text, or the preset's items less the
\* excluded extensions.
target_match_items(args) ==
    IF args.include_ext # <<>>
    THEN {Lower(Strip(item)) : item \in
              {i \in Range(args.include_ext) : Strip(i) # ""}}
    ELSE IF args.preset = "all_matching_text" THEN {}
    ELSE {Lower(item) : item \in
              {i \in DEFAULT_PRESETS(args.preset) :
                  ~(StartsWithDot(i)
                      /\ Lower(i) \in active_extension_exclusions(args))}}

\* The resolved scan root, as Path.parts.
SearchRootParts == <<"home", "repo">>

\* The regular files a scan root may hold, as parts relative to the root.
TreeFiles ==
    { <<"a.py">>, <<"notes.bin">>, <<".DS_Store">>,
      <<"Build", "a.py">>, <<"out", "a.py">>,
      <<"src", "a.py">>, <<"src", "notes.bin">> }

\* --ignore-dir as given on the command line.
IgnoreDirChoices == {<<>>, <<"Out">>}

\* A directory whose listing is denied, or "" for none.
UnreadableDirChoices == {"", "src", "Build"}

\* FileProcessor.__init__: user names lower-cased, defaults added as they are.
ignored_dirs_set(cli_ignore_dirs_list) ==
    {Lower(d) : d \in Range(cli_ignore_dirs_list)} \cup DEFAULT_IGNORE_DIRS

ScanItem(parts, is_file) == [parts |-> parts, is_file |-> is_file]

\* file_path.parts of an item yielded by search_root.rglob("*"), lower-cased.
file_path_parts_lower(item) ==
    {Lower(part) : part \in Range(SearchRootParts \o item.parts)}

\* Rule 2: by the include list, by the exclusions alone under
\* all_matching_text, or by the preset's items.
passes_match_criteria(item, args) ==
    LET name == item.parts[Len(item.parts)]
        file_ext_lower == Lower(Suffix(name))
        file_name_lower == Lower(name)
    IN  IF match_mode_is_explicit_include(args)
        THEN \/ file_ext_lower \in target_match_items(args)
             \/ file_name_lower \in target_match_items(args)
        ELSE IF target_match_items(args) = {}
        THEN file_ext_lower \notin active_extension_exclusions(args)
        ELSE \/ file_ext_lower \in target_match_items(args)
             \/ file_name_lower \in target_match_items(args)

\* _is_file_match_rules_discovery: what becomes of one scanned item.
is_file_match_rules_discovery(item, ignored, args) ==
    IF ~item.is_file THEN "not_a_file"
    ELSE IF \E ign_dir \in ignored : ign_dir \in file_path_parts_lower(item)
         THEN "ignored_directory"
    ELSE IF ~passes_match_criteria(item, args) THEN "no_matching_include_rule"
    ELSE "candidate"

RECURSIVE RglobItems(_, _, _)
\* search_root.rglob("*") over the files of the tree: a directory is yielded
\* before the first file below it; what lies below a directory whose listing
\* is denied is not yielded.
RglobItems(tree, denied, seen_dirs) ==
    IF tree = <<>> THEN <<>>
    ELSE LET f == Head(tree)
             in_dir == Len(f) > 1
             dir == IF in_dir THEN f[1] ELSE ""
             dir_item == IF in_dir /\ dir \notin seen_dirs
                         THEN <<ScanItem(<<dir>>, FALSE)>> ELSE <<>>
             file_item == IF in_dir /\ dir = denied
                          THEN <<>> ELSE <<ScanItem(f, TRUE)>>
         IN  dir_item \o file_item
                 \o RglobItems(Tail(tree), denied, seen_dirs \cup {dir})

\* Does the walk meet the directory whose listing is denied?
MeetsUnreadable ==
    /\ unreadable_dir # ""
    /\ \E i \in 1..Len(scan_tree) :
          Len(scan_tree[i]) > 1 /\ scan_tree[i][1] = unreadable_dir

\* Discovery about to start on some tree.
DiscoveryInit ==
    /\ pc = "discovery"
    /\ search_prompt_or_file_path = None
    /\ actual_search_prompt_content = None
    /\ similarity_threshold = DEFAULT_SIMILARITY_THRESHOLD
    /\ max_flat_tokens = MaxBudget
    /\ candidate_paths = <<>>
    /\ initial_skipped_files_info = <<>>
    /\ pool_results = <<>>
    /\ all_processed_or_skipped_metadata = <<>>
    /\ final_llm_context_files = <<>>
    /\ other_cataloged_files_summary = <<>>
    /\ pack_pos = 0
    /\ current_word_count_for_flat_output = 0
    /\ flat_content_parts_list = <<>>
    /\ prompt_tfidf_vector_global = None
    /\ LoaderIdle
    /\ scan_tree \in {t \in InjectiveSeqs(TreeFiles) : Len(t) = MaxFiles}
    /\ ignore_dir \in IgnoreDirChoices
    /\ unreadable_dir \in UnreadableDirChoices
    /\ cli_args \in [preset : PresetChoices, include_ext : IncludeExtChoices,
                     exclude_ext : ExcludeExtChoices]
    /\ all_items_in_scan_root = <<>>
    /\ scan_index = 0

\* Lines 1011-1019: rglob runs to its end; pathlib passes over a directory it
\* may not list.
RglobCompletes ==
    /\ pc = "discovery"
    /\ all_items_in_scan_root' = RglobItems(scan_tree, unreadable_dir, {})
    /\ scan_index' = 1
    /\ pc' = "classify"
    /\ UNCHANGED <<search_prompt_or_file_path, actual_search_prompt_content,
                   similarity_threshold, max_flat_tokens, candidate_paths,
                   initial_skipped_files_info, pool_results,
                   all_processed_or_skipped_metadata, final_llm_context_files,
                   other_cataloged_files_summary, pack_pos,
                   current_word_count_for_flat_output, flat_content_parts_list,
                   prompt_tfidf_vector_global, loader_vars,
                   scan_tree, ignore_dir, unreadable_dir, cli_args>>

\* Lines 1020-1025: the error reaches discover_files_for_processing, which
\* logs it and returns [], 0, 0.
RglobRaises ==
    /\ pc = "discovery"
    /\ MeetsUnreadable
    /\ candidate_paths' = <<>>
    /\ pc' = "discovered"
    /\ UNCHANGED <<search_prompt_or_file_path, actual_search_prompt_content,
                   similarity_threshold, max_flat_tokens,
                   initial_skipped_files_info, pool_results,
                   all_processed_or_skipped_metadata, final_llm_context_files,
                   other_cataloged_files_summary, pack_pos,
                   current_word_count_for_flat_output, flat_content_parts_list,
                   prompt_tfidf_vector_global, loader_vars, discovery_vars>>

\* Lines 1035-1037: one turn of the classification loop.
ClassifyItem ==
    /\ pc = "classify"
    /\ scan_index <= Len(all_items_in_scan_root)
    /\ LET item == all_items_in_scan_root[scan_index]
           outcome == is_file_match_rules_discovery(
                          item, ignored_dirs_set(ignore_dir), cli_args)
       IN  /\ candidate_paths' =
                  IF outcome = "candidate"
                  THEN Append(candidate_paths, item.parts) ELSE candidate_paths
           /\ initial_skipped_files_info' =
                  IF outcome \in {"ignored_directory", "no_matching_include_rule"}
                  THEN Append(initial_skipped_files_info,
                              SkippedInfo(item.parts, outcome))
                  ELSE initial_skipped_files_info
    /\ scan_index' = scan_index + 1
    /\ UNCHANGED <<pc, search_prompt_or_file_path, actual_search_prompt_content,
                   similarity_threshold, max_flat_tokens, pool_results,
                   all_processed_or_skipped_metadata, final_llm_context_files,
                   other_cataloged_files_summary, pack_pos,
                   current_word_count_for_flat_output, flat_content_parts_list,
                   prompt_tfidf_vector_global, loader_vars,
                   scan_tree, ignore_dir, unreadable_dir, cli_args,
                   all_items_in_scan_root>>

\* Lines 1039-1043: the loop is over and the candidates are returned.
DiscoveryReturns ==
    /\ pc = "classify"
    /\ scan_index > Len(all_items_in_scan_root)
    /\ pc' = "discovered"
    /\ UNCHANGED <<search_prompt_or_file_path, actual_search_prompt_content,
                   similarity_threshold, max_flat_tokens, candidate_paths,
                   initial_skipped_files_info, pool_results,
                   all_processed_or_skipped_metadata, final_llm_context_files,
                   other_cataloged_files_summary, pack_pos,
                   current_word_count_for_flat_output, flat_content_parts_list,
                   prompt_tfidf_vector_global, loader_vars, discovery_vars>>

DiscoveryNext ==
    \/ RglobCompletes
    \/ RglobRaises
    \/ ClassifyItem
    \/ DiscoveryReturns

DiscoverySpec == DiscoveryInit /\ [][DiscoveryNext]_vars

(* ------------------------ the scorer on its own ------------------------ *)
\* Similarity and keyword scores in thousandths on both sides of 0.001, of
\* the label thresholds and of 1.0, and keyword boosts in tenths.
SimChoices == {0, 1, 2, 10, 19, 20, 500, 1000, 1001}
KwChoices == {0, 1, 2, 49, 50, 600, 1000}
BoostChoices == {0, 5, DEFAULT_KEYWORD_BOOST, 30}

\* One processed text about to be scored against the prompt "q".
ScorerInit ==
    /\ pc = "scorer"
    /\ search_prompt_or_file_path = "q"
    /\ actual_search_prompt_content = "q"
    /\ similarity_threshold = DEFAULT_SIMILARITY_THRESHOLD
    /\ max_flat_tokens = MaxBudget
    /\ candidate_paths = <<>>
    /\ initial_skipped_files_info = <<>>
    /\ pool_results = <<>>
    /\ all_processed_or_skipped_metadata = <<>>
    /\ final_llm_context_files = <<>>
    /\ other_cataloged_files_summary = <<>>
    /\ pack_pos = 0
    /\ current_word_count_for_flat_output = 0
    /\ flat_content_parts_list = <<>>
    /\ prompt_tfidf_vector_global \in {None, "vector"}
    /\ loader_file \in {File("ok", 1, 1, sim, kw) :
                            sim \in SimChoices, kw \in KwChoices}
    /\ loader_out = NoOutput
    /\ DiscoveryIdle

\* One call of calculate_relevance_scores_for_content, on an empty or a
\* non-empty text.
CallScorer ==
    /\ pc = "scorer"
    /\ \E keyword_boost_factor \in BoostChoices, content \in {0, 1} :
          loader_out' =
              [call |-> "calculate_relevance_scores_for_content",
               content |-> content,
               keyword_boost_factor |-> keyword_boost_factor,
               scores |-> calculate_relevance_scores_for_content(
                              content, loader_file,
                              extract_search_prompt_keywords(
                                  actual_search_prompt_content),
                              keyword_boost_factor)]
    /\ pc' = "scored"
    /\ UNCHANGED <<search_prompt_or_file_path, actual_search_prompt_content,
                   similarity_threshold, max_flat_tokens, candidate_paths,
                   initial_skipped_files_info, pool_results,
                   all_processed_or_skipped_metadata, final_llm_context_files,
                   other_cataloged_files_summary, pack_pos,
                   current_word_count_for_flat_output, flat_content_parts_list,
                   prompt_tfidf_vector_global, loader_file, discovery_vars>>

ScorerNext == CallScorer

ScorerSpec == ScorerInit /\ [][ScorerNext]_vars

(* --------------------- the keyword score on its own -------------------- *)
\* A text as calculate_keyword_score sees it: len(content_lower.split()) and,
\* for each word a keyword may be, the number of its whole-word matches.
KeywordVocabulary == {"alpha", "beta", "gamma"}
DocWordChoices == {0, 1, 3, 60}
KeywordDocs ==
    {doc \in [words : DocWordChoices,
              occurrences : [KeywordVocabulary -> 0..MaxOccurrences]] :
        doc.words = 0 => \A kw \in KeywordVocabulary : doc.occurrences[kw] = 0}

\* The keyword lists of a prompt.
KeywordChoices ==
    {<<>>, <<"alpha">>, <<"alpha", "beta">>, <<"alpha", "beta", "gamma">>}

\* The keywords with at least one match.
num_keywords_found(doc, keywords) ==
    Cardinality({i \in 1..Len(keywords) : doc.occurrences[keywords[i]] > 0})

RECURSIVE total_frequency(_, _)
\* The matches of all keywords together.
total_frequency(doc, keywords) ==
    IF keywords = <<>> THEN 0
    ELSE doc.occurrences[Head(keywords)] + total_frequency(doc, Tail(keywords))

\* len(content_lower.split()) + 1.
content_words_approx(doc) == doc.words + 1

\* The scores of one text and one keyword list are numerators over this.
KeywordScoreDenominator(doc, keywords) ==
    10 * Len(keywords) * content_words_approx(doc)

\* (num_keywords_found / len(keywords)) * 0.6.
distinct_keyword_score_component(doc, keywords) ==
    6 * num_keywords_found(doc, keywords) * content_words_approx(doc)

\* A density term that falls as the matches grow.
frequency_score_component_Penalty(doc, keywords) ==
    4 * Len(keywords) * content_words_approx(doc)
        - Min(100 * total_frequency(doc, keywords) * Len(keywords),
              4 * Len(keywords) * content_words_approx(doc))

\* min((total_frequency / content_words_approx) * 10, 0.4).
frequency_score_component(doc, keywords) ==
    Min(100 * total_frequency(doc, keywords) * Len(keywords),
        4 * Len(keywords) * content_words_approx(doc))

\* calculate_keyword_score on the text itself: 0.0 without keywords, without
\* content or without a match, else the two components capped at 1.0.
calculate_keyword_score_of_text(doc, keywords) ==
    IF keywords = <<>> \/ doc.words = 0 THEN 0
    ELSE IF num_keywords_found(doc, keywords) = 0 THEN 0
    ELSE Min(distinct_keyword_score_component(doc, keywords)
                 + frequency_score_component(doc, keywords),
             KeywordScoreDenominator(doc, keywords))

\* One text and one keyword list about to be scored.
KeywordInit ==
    /\ pc = "keywords"
    /\ search_prompt_or_file_path = "q"
    /\ actual_search_prompt_content = "q"
    /\ similarity_threshold = DEFAULT_SIMILARITY_THRESHOLD
    /\ max_flat_tokens = MaxBudget
    /\ candidate_paths = <<>>
    /\ initial_skipped_files_info = <<>>
    /\ pool_results = <<>>
    /\ all_processed_or_skipped_metadata = <<>>
    /\ final_llm_context_files = <<>>
    /\ other_cataloged_files_summary = <<>>
    /\ pack_pos = 0
    /\ current_word_count_for_flat_output = 0
    /\ flat_content_parts_list = <<>>
    /\ prompt_tfidf_vector_global = "vector"
    /\ loader_file \in KeywordDocs
    /\ loader_out \in {[call |-> "none", keywords |-> keywords] :
                           keywords \in KeywordChoices}
    /\ DiscoveryIdle

\* One call of calculate_keyword_score.
CallKeywordScore ==
    /\ pc = "keywords"
    /\ loader_out' =
           [call |-> "calculate_keyword_score",
            keywords |-> loader_out.keywords,
            score |-> calculate_keyword_score_of_text(
                          loader_file, loader_out.keywords)]
    /\ pc' = "keyword_scored"
    /\ UNCHANGED <<search_prompt_or_file_path, actual_search_prompt_content,
                   similarity_threshold, max_flat_tokens, candidate_paths,
                   initial_skipped_files_info, pool_results,
                   all_processed_or_skipped_metadata, final_llm_context_files,
                   other_cataloged_files_summary, pack_pos,
                   current_word_count_for_flat_output, flat_content_parts_list,
                   prompt_tfidf_vector_global, loader_file, discovery_vars>>

KeywordNext == CallKeywordScore

KeywordSpec == KeywordInit /\ [][KeywordNext]_vars

(* ------------------------ the content transformer ---------------------- *)
\* A line of text: some code, then white space, then a "#" comment, each
\* present or not. The white space ends the line when there is no comment
\* and starts it when there is no code.
Line(code, gap, comment) == [code |-> code, gap |-> gap, comment |-> comment]
BlankLine == Line(FALSE, FALSE, FALSE)
Lines == {Line(code, gap, comment) : code, gap, comment \in BOOLEAN}

\* A text is what str.splitlines() makes of it, and whether it ends with a
\* line break.
EmptyText == [lines |-> <<>>, final_newline |-> FALSE]
Texts ==
    {text \in [lines : UNION {[1..n -> Lines] : n \in 0..MaxLines},
               final_newline : BOOLEAN] :
        IF text.lines = <<>> THEN ~text.final_newline
        ELSE text.final_newline \/ text.lines[Len(text.lines)] # BlankLine}

\* not line.strip()
is_blank(line) == ~line.code /\ ~line.comment

\* line.rstrip() and line.lstrip()
rstrip(line) == IF line.comment THEN line ELSE [line EXCEPT !.gap = FALSE]
lstrip(line) == IF line.code THEN line ELSE [line EXCEPT !.gap = FALSE]

\* "\n".join(lines), as a text.
JoinLines(lines) ==
    IF lines = <<>> THEN EmptyText
    ELSE IF lines[Len(lines)] # BlankLine
         THEN [lines |-> lines, final_newline |-> FALSE]
    ELSE IF Len(lines) = 1 THEN EmptyText
    ELSE [lines |-> SubSeq(lines, 1, Len(lines) - 1), final_newline |-> TRUE]

RECURSIVE DropLeadingBlank(_)
\* while lines and not lines[0].strip(): lines.pop(0)
DropLeadingBlank(lines) ==
    IF lines # <<>> /\ is_blank(Head(lines))
    THEN DropLeadingBlank(Tail(lines)) ELSE lines

RECURSIVE DropTrailingBlank(_)
\* while lines and not lines[-1].strip(): lines.pop()
DropTrailingBlank(lines) ==
    IF lines # <<>> /\ is_blank(lines[Len(lines)])
    THEN DropTrailingBlank(SubSeq(lines, 1, Len(lines) - 1)) ELSE lines

\* str.strip() on a whole text.
StripText(text) ==
    LET kept == DropTrailingBlank(DropLeadingBlank(text.lines))
        n == Len(kept)
        first == [i \in 1..n |-> IF i = 1 THEN lstrip(kept[i]) ELSE kept[i]]
    IN  [lines |-> [i \in 1..n |-> IF i = n THEN rstrip(first[i]) ELSE first[i]],
         final_newline |-> FALSE]

\* Lines 307-318: lines right-stripped, a run of blank lines made one.
compacted_lines(lines) ==
    LET n == Len(lines)
        stripped == [i \in 1..n |-> rstrip(lines[i])]
        keep == [i \in 1..n |->
                    \/ ~is_blank(stripped[i])
                    \/ i = 1
                    \/ ~is_blank(stripped[i - 1])]
        idx == SelectSeqIdx(n, keep)
    IN  [j \in 1..Len(idx) |-> stripped[idx[j]]]

minify_whitespace_content(text) ==
    IF text = EmptyText THEN EmptyText
    ELSE JoinLines(DropTrailingBlank(DropLeadingBlank(
             compacted_lines(text.lines))))

\* Lines 425-434: a blank line stays, as an empty one, only between two
\* lines that are not blank.
cleaned_lines(lines) ==
    LET n == Len(lines)
        keep == [i \in 1..n |->
                    \/ ~is_blank(lines[i])
                    \/ /\ i > 1 /\ ~is_blank(lines[i - 1])
                       /\ i < n /\ ~is_blank(lines[i + 1])]
        idx == SelectSeqIdx(n, keep)
    IN  [j \in 1..Len(idx) |->
            IF is_blank(lines[idx[j]]) THEN BlankLine ELSE lines[idx[j]]]

\* The languages of the model: the tokenizer path, a "#" language of the
\* regular-expression path, and a language with no comment rule.
Languages == {"Python", "Ruby", "Unknown"}
HashCommentLanguages == {"Ruby"}

\* strip_generic_comments: "#.*?(\n|$)" becomes "\n", then the blank lines
\* are cleaned up.
strip_generic_comments(text, language) ==
    IF text = EmptyText THEN EmptyText
    ELSE LET n == Len(text.lines)
             code ==
                 IF language \in HashCommentLanguages
                 THEN [lines |-> [i \in 1..n |->
                                     [text.lines[i] EXCEPT !.comment = FALSE]],
                       final_newline |->
                           text.final_newline \/ text.lines[n].comment]
                 ELSE text
         IN  JoinLines(cleaned_lines(code.lines))

\* strip_python_comments_and_docstrings on text without string literals: a
\* skipped comment comes back with the spacing copied from the token's line,
\* except before the NEWLINE token the tokenizer adds to a last line that
\* has no line break, whose line is empty: there the gap is filled with
\* spaces.
strip_python_comments_and_docstrings(text) ==
    IF \A i \in 1..Len(text.lines) : is_blank(text.lines[i]) THEN EmptyText
    ELSE LET n == Len(text.lines)
         IN  IF ~text.final_newline /\ text.lines[n].code /\ text.lines[n].comment
             THEN [text EXCEPT !.lines[n] = Line(TRUE, TRUE, FALSE)]
             ELSE text

\* process_content_for_llm: comments first, then white space, then strip().
process_content_for_llm(content, language, minify_ws, strip_com) ==
    LET stripped == IF ~strip_com THEN content
                    ELSE IF language = "Python"
                         THEN strip_python_comments_and_docstrings(content)
                    ELSE strip_generic_comments(content, language)
        minified == IF minify_ws THEN minify_whitespace_content(stripped)
                    ELSE stripped
    IN  StripText(minified)

\* One text about to be transformed.
TransformerInit ==
    /\ pc = "transformer"
    /\ search_prompt_or_file_path = None
    /\ actual_search_prompt_content = None
    /\ similarity_threshold = DEFAULT_SIMILARITY_THRESHOLD
    /\ max_flat_tokens = MaxBudget
    /\ candidate_paths = <<>>
    /\ initial_skipped_files_info = <<>>
    /\ pool_results = <<>>
    /\ all_processed_or_skipped_metadata = <<>>
    /\ final_llm_context_files = <<>>
    /\ other_cataloged_files_summary = <<>>
    /\ pack_pos = 0
    /\ current_word_count_for_flat_output = 0
    /\ flat_content_parts_list = <<>>
    /\ prompt_tfidf_vector_global = None
    /\ loader_file \in Texts
    /\ loader_out = NoOutput
    /\ DiscoveryIdle

\* process_content_for_llm on the text, for some language and flags.
CallTransformer ==
    /\ pc = "transformer"
    /\ \E language \in Languages, minify_ws \in BOOLEAN, strip_com \in BOOLEAN :
          loader_out' =
              [call |-> "process_content_for_llm",
               language |-> language,
               minify_ws |-> minify_ws,
               strip_com |-> strip_com,
               content |-> process_content_for_llm(
                               loader_file, language, minify_ws, strip_com)]
    /\ pc' = "transformed"
    /\ UNCHANGED <<search_prompt_or_file_path, actual_search_prompt_content,
                   similarity_threshold, max_flat_tokens, candidate_paths,
                   initial_skipped_files_info, pool_results,
                   all_processed_or_skipped_metadata, final_llm_context_files,
                   other_cataloged_files_summary, pack_pos,
                   current_word_count_for_flat_output, flat_content_parts_list,
                   prompt_tfidf_vector_global, loader_file, discovery_vars>>

\* process_content_for_llm on its own output, same language and flags.
CallTransformerAgain ==
    /\ pc = "transformed"
    /\ loader_file' = loader_out.content
    /\ loader_out' =
           [loader_out EXCEPT
               !.call = "process_content_for_llm_again",
               !.content = process_content_for_llm(
                               loader_out.content, loader_out.language,
                               loader_out.minify_ws, loader_out.strip_com)]
    /\ pc' = "transformed_again"
    /\ UNCHANGED <<search_prompt_or_file_path, actual_search_prompt_content,
                   similarity_threshold, max_flat_tokens, candidate_paths,
                   initial_skipped_files_info, pool_results,
                   all_processed_or_skipped_metadata, final_llm_context_files,
                   other_cataloged_files_summary, pack_pos,
                   current_word_count_for_flat_output, flat_content_parts_list,
                   prompt_tfidf_vector_global, discovery_vars>>

TransformerNext == CallTransformer \/ CallTransformerAgain

TransformerSpec == TransformerInit /\ [][TransformerNext]_vars

(* =============================== claims ================================ *)
Ctx == final_llm_context_files
Tag(i) == Ctx[i].full_content_included_in_flat
IsIncluded(i) == Tag(i) = "True"
IsPartial(i) == Tag(i) = "partial_due_to_token_limit"
IsExcluded(i) == Tag(i) = "False"

RECURSIVE SumOver(_, _)
\* Sum of f[i] over the finite set of indices S.
SumOver(S, f) ==
    IF S = {} THEN 0
    ELSE LET i == CHOOSE x \in S : TRUE IN f[i] + SumOver(S \ {i}, f)

PosIn(seq, x) == CHOOSE k \in 1..Len(seq) : seq[k] = x

Packing == pc \in {"packing", "done"}
Ranked == pc \in {"packing", "done"}

\* C1: the content words of the records marked included plus the header words
\* of the records marked included or partial never exceed the word budget.
C1_PackedWordsWithinBudget ==
    Packing =>
        SumOver({i \in 1..Len(Ctx) : IsIncluded(i)},
                [i \in 1..Len(Ctx) |-> Ctx[i].full_content])
      + SumOver({i \in 1..Len(Ctx) : IsIncluded(i) \/ IsPartial(i)},
                [i \in 1..Len(Ctx) |-> header_word_count(Ctx[i])])
      <= max_flat_tokens

\* C1 witness: packing ended with a full entry followed by a truncated one.
C1_Witness ==
    /\ pc = "done"
    /\ \E i, j \in 1..Len(Ctx) : IsIncluded(i) /\ IsPartial(j)
    /\ max_flat_tokens > 0

\* C2: the cumulative word count (headers, contents, truncated content and
\* its marker) never exceeds the word budget while packing or afterwards.
C2_CountWithinBudget ==
    Packing => current_word_count_for_flat_output <= max_flat_tokens

\* C3: at most one record is tagged partial.
C3_AtMostOnePartial ==
    Packing => Cardinality({i \in 1..Len(Ctx) : IsPartial(i)}) <= 1

\* C3 witness: packing ended on a truncated record with records left behind it.
C3_Witness ==
    /\ pc = "done"
    /\ \E i \in 1..Len(Ctx) : IsPartial(i) /\ i < Len(Ctx)

\* C4: when packing has ended, every record after a partial or excluded
\* record is tagged excluded.
C4_TailTaggedExcluded ==
    pc = "done" =>
        \A i, j \in 1..Len(Ctx) :
            (i < j /\ (IsPartial(i) \/ IsExcluded(i))) => IsExcluded(j)

\* C5: the packed entries are, in order, a prefix of the ranked sequence, and
\* nothing is packed behind a truncated or excluded record.
C5_PackedIsRankPrefix ==
    Packing =>
        /\ Len(flat_content_parts_list) <= Len(Ctx)
        /\ \A k \in 1..Len(flat_content_parts_list) :
              flat_content_parts_list[k].path = Ctx[k].path
        /\ \A i, j \in 1..Len(Ctx) :
              (i < j /\ (IsPartial(i) \/ IsExcluded(i))) =>
                  ~(IsIncluded(j) \/ IsPartial(j))

\* C5 witness: the first record was excluded although a later one would
\* have fitted the budget in full.
C5_Witness ==
    /\ pc = "done"
    /\ Len(Ctx) >= 2
    /\ IsExcluded(1)
    /\ \E j \in 2..Len(Ctx) :
          FitsInFull(current_word_count_for_flat_output,
                     header_word_count(Ctx[j]), Ctx[j].full_content,
                     max_flat_tokens)

Aggregated == pc \in {"sort", "packing", "done"}
Collected == pc \in {"aggregate", "sort", "packing", "done"}
Cat == other_cataloged_files_summary
Denominator == ScoreDenominator(DEFAULT_KEYWORD_BOOST)

\* C6: after aggregation, in a run that was given a prompt, every in_context
\* record has a relevance score of at least the similarity threshold.
C6_ContextMeetsThreshold ==
    (Aggregated /\ search_prompt_or_file_path = "q") =>
        \A i \in 1..Len(Ctx) :
            Ctx[i].relevance_score >= similarity_threshold * Denominator

\* C6 witness: a prompted run with a positive threshold kept one record in
\* context and sent a scored one to the catalog.
C6_Witness ==
    /\ pc = "sort"
    /\ search_prompt_or_file_path = "q"
    /\ similarity_threshold > 0
    /\ Len(Ctx) >= 1
    /\ \E k \in 1..Len(Cat) :
          /\ Cat[k].overall_processing_status = "skipped_low_relevance"
          /\ Cat[k].relevance_score > 0

\* C7: after ranking, the ranks are 1..N in sequence order; with a Query Model
\* the scores never increase along the sequence, without one the paths ascend.
C7_RankedOrder ==
    Ranked =>
        /\ \A i \in 1..Len(Ctx) : Ctx[i].rank_in_llm_context = i
        /\ actual_search_prompt_content # None =>
               \A i, j \in 1..Len(Ctx) :
                   i < j => Ctx[i].relevance_score >= Ctx[j].relevance_score
        /\ actual_search_prompt_content = None =>
               \A i, j \in 1..Len(Ctx) : i < j => Ctx[i].path < Ctx[j].path

\* C7 witness: ranking moved a higher-scored record ahead of one that had
\* been dispatched before it.
C7_Witness ==
    /\ pc = "packing"
    /\ actual_search_prompt_content # None
    /\ Len(Ctx) >= 2
    /\ Ctx[1].relevance_score > Ctx[2].relevance_score
    /\ PosIn(candidate_paths, Ctx[1].path) > PosIn(candidate_paths, Ctx[2].path)

\* C8: with a Query Model, in_context records of equal relevance score are
\* ranked by relative path ascending.
C8_TiesByPath ==
    (Ranked /\ actual_search_prompt_content # None) =>
        \A i, j \in 1..Len(Ctx) :
            (i < j /\ Ctx[i].relevance_score = Ctx[j].relevance_score) =>
                Ctx[i].path < Ctx[j].path

\* C9: the ranked result does not depend on the order in which the worker
\* tasks completed: in_context is ordered by score and, among equal scores,
\* by dispatch position (by path without a Query Model); the catalog by path.
C9_OrderIndependentOfCompletion ==
    Ranked =>
        /\ \A i, j \in 1..Len(Ctx) :
              i < j =>
                  IF actual_search_prompt_content # None
                  THEN \/ Ctx[i].relevance_score > Ctx[j].relevance_score
                       \/ /\ Ctx[i].relevance_score = Ctx[j].relevance_score
                          /\ PosIn(candidate_paths, Ctx[i].path)
                                 < PosIn(candidate_paths, Ctx[j].path)
                  ELSE Ctx[i].path < Ctx[j].path
        /\ \A i, j \in 1..Len(Cat) : i < j => Cat[i].path < Cat[j].path

\* C9 witness: every task of a three-task pool has completed, two of the
\* records tie, and the ranking is done.
C9_Witness ==
    /\ pc = "packing"
    /\ Len(candidate_paths) >= 3
    /\ actual_search_prompt_content # None
    /\ \E i, j \in 1..Len(Ctx) :
          i < j /\ Ctx[i].relevance_score = Ctx[j].relevance_score
    /\ Len(Cat) >= 1

\* C10: once the pool has finished, every dispatched candidate path has
\* exactly one worker record, whether or not its file could be loaded.
C10_OneRecordPerCandidate ==
    Collected =>
        LET all == all_processed_or_skipped_metadata
            RecordsOf(p) == {k \in 1..Len(all) :
                               all[k].kind = "worker" /\ all[k].path = p}
        IN  /\ \A p \in Range(candidate_paths) : Cardinality(RecordsOf(p)) = 1
            /\ \A p \in Paths \ Range(candidate_paths) : RecordsOf(p) = {}

\* C10 witness: the pool finished with one file too large and one vanished.
C10_Witness ==
    /\ pc = "aggregate"
    /\ Len(candidate_paths) >= 2
    /\ \E a, b \in 1..Len(all_processed_or_skipped_metadata) :
          /\ all_processed_or_skipped_metadata[a].overall_processing_status
                 = "skipped_size_limit"
          /\ all_processed_or_skipped_metadata[b].overall_processing_status
                 = "skipped_read_error_not_found"

AllMeta == all_processed_or_skipped_metadata

\* C11: a worker task that raises an unexpected exception does not abort the
\* run: the other tasks' results are kept, and once the pool is done the
\* failing path has a record with status skipped_read_error_generic.
C11_WorkerExceptionIsRecorded ==
    \A k \in 1..Len(pool_results) :
        pool_results[k].kind = "raised" =>
            /\ pc # "aborted"
            /\ \A j \in 1..Len(pool_results) : pool_results[j].kind # "lost"
            /\ Collected =>
                   \E i \in 1..Len(AllMeta) :
                       /\ AllMeta[i].path = candidate_paths[k]
                       /\ AllMeta[i].overall_processing_status
                              = "skipped_read_error_generic"

\* Statuses that mark a record as scored below the threshold.
BelowThresholdStatuses == {"skipped_low_relevance", "info_processed_below_threshold"}

\* C12: with a Query Model, a loaded file whose combined score is below the
\* threshold is absent from in_context and has one cataloged_only record that
\* keeps its relevance, similarity and keyword scores and its match type,
\* carries no content, and has a below-threshold status.
C12_LowRelevanceGate ==
    (Aggregated /\ actual_search_prompt_content # None) =>
        \A k \in 1..Len(pool_results) :
            (/\ pool_results[k].kind = "worker"
             /\ pool_results[k].relevance_score # Absent
             /\ pool_results[k].relevance_score < similarity_threshold * Denominator)
            =>
            /\ \A i \in 1..Len(Ctx) : Ctx[i].path # pool_results[k].path
            /\ \E i \in 1..Len(Cat) :
                  /\ Cat[i].path = pool_results[k].path
                  /\ Cat[i].relevance_score = pool_results[k].relevance_score
                  /\ Cat[i].similarity_score # Absent
                  /\ Cat[i].keyword_score # Absent
                  /\ Cat[i].match_type # ""
                  /\ Cat[i].full_content = Absent
                  /\ Cat[i].overall_processing_status \in BelowThresholdStatuses

\* C12 witness: a file with similarity 0.030 scored 0.012 against a threshold
\* of 0.05 and was cataloged with its scores.
C12_Witness ==
    /\ pc = "sort"
    /\ actual_search_prompt_content # None
    /\ similarity_threshold = DEFAULT_SIMILARITY_THRESHOLD
    /\ \E k \in 1..Len(Cat) :
          /\ Cat[k].similarity_score = 30
          /\ Cat[k].match_type = "tfidf_dominant"
          /\ Cat[k].relevance_score = 300

\* C13: after aggregation every record, worker result or rejection, is in
\* exactly one of in_context and cataloged_only; it is in in_context exactly
\* when its file was loaded and processed (the worker then gave it a
\* relevance score) and either there is no Query Model or that score is at
\* least the threshold.
C13_Partition ==
    Aggregated =>
        /\ Len(Ctx) + Len(Cat) = Len(AllMeta)
        /\ \A i \in 1..Len(AllMeta) :
              LET inCtx == {k \in 1..Len(Ctx) : Ctx[k].path = AllMeta[i].path}
                  inCat == {k \in 1..Len(Cat) : Cat[k].path = AllMeta[i].path}
                  processed == /\ AllMeta[i].kind = "worker"
                               /\ AllMeta[i].relevance_score # Absent
              IN  /\ Cardinality(inCtx) + Cardinality(inCat) = 1
                  /\ inCtx # {} <=>
                         /\ processed
                         /\ \/ actual_search_prompt_content = None
                            \/ AllMeta[i].relevance_score
                                   >= similarity_threshold * Denominator

\* C13 witness: a run without prompt put an empty file in in_context and
\* both a rejection and a skipped worker record in cataloged_only.
C13_Witness ==
    /\ pc = "sort"
    /\ actual_search_prompt_content = None
    /\ \E i \in 1..Len(Ctx) : Ctx[i].overall_processing_status = "processed_empty"
    /\ \E i, j \in 1..Len(Cat) : Cat[i].kind = "discovery" /\ Cat[j].kind = "worker"

\* The status taxonomy of the specification.
Taxonomy ==
    {"included", "processed_below_threshold", "skipped_size",
     "skipped_decode_error", "skipped_read_error_not_found",
     "skipped_read_error_permission", "skipped_read_error_generic",
     "ignored_directory", "no_matching_rule"}

\* What a record shows as its status: a rejection has only its reason.
ReportedStatus(item) ==
    IF item.kind = "discovery" THEN item.reason ELSE StatusOf(item)

\* C14: in the final report the status of every record, in_context or
\* cataloged_only, worker result or rejection, is one of the nine taxonomy values.
C14_StatusInTaxonomy ==
    Ranked =>
        /\ \A i \in 1..Len(Ctx) : ReportedStatus(Ctx[i]) \in Taxonomy
        /\ \A i \in 1..Len(Cat) : ReportedStatus(Cat[i]) \in Taxonomy

\* C15: a file strictly larger than max_file_size gets a record with status
\* skipped_size and no content, its body is not read and it is not scored; a
\* file whose size equals max_file_size is not skipped for its size.
C15_OversizeSkipped ==
    (pc = "worker_done" /\ loader_file.stat = "ok") =>
        /\ loader_file.size > MaxFileSize =>
              /\ pool_results[1].overall_processing_status = "skipped_size"
              /\ pool_results[1].full_content = Absent
              /\ pool_results[1].relevance_score = Absent
              /\ ~loader_out.body_read
        /\ loader_file.size = MaxFileSize =>
              pool_results[1].overall_processing_status
                  \notin {"skipped_size", "skipped_size_limit"}

\* The exception, if any, that a load of the file runs into.
LoadFailure ==
    IF loader_file.stat # "ok" THEN loader_file.stat
    ELSE IF OpensFile(loader_file, MaxFileSize) THEN loader_file.open
    ELSE "ok"

\* C16: read_file_content_robust never raises; when stat or open/read fails
\* it returns no text with skipped_read_error_not_found for a missing file,
\* skipped_read_error_permission for a denied one and
\* skipped_read_error_generic for any other error.
C16_LoaderNeverRaises ==
    pc = "read_done" =>
        /\ loader_out.status # "raised"
        /\ LoadFailure # "ok" =>
              /\ loader_out.content = Absent
              /\ loader_out.status =
                     (CASE LoadFailure = "FileNotFoundError" ->
                               "skipped_read_error_not_found"
                        [] LoadFailure = "PermissionError" ->
                               "skipped_read_error_permission"
                        [] OTHER -> "skipped_read_error_generic")

\* C16 witness: stat succeeded, the read failed with an error that is neither
\* "not found" nor "permission denied", and the loader returned.
C16_Witness ==
    /\ pc = "read_done"
    /\ loader_file.stat = "ok"
    /\ loader_file.open = "OSError"
    /\ loader_out.body_read
    /\ loader_out.status = "skipped_read_error_generic"

\* C17: in a run whose prompt was given but whose Query Model could not be
\* built, no worker task is ever dispatched and no file is scored.
C17_NoDispatchAfterFailedBuild ==
    (/\ search_prompt_or_file_path \in UnbuildablePrompts
     /\ pc # "start"
     /\ prompt_tfidf_vector_global = None) =>
        /\ pool_results = <<>>
        /\ \A i \in 1..Len(AllMeta) : AllMeta[i].relevance_score = Absent

Rejections == initial_skipped_files_info
Discovered == pc = "discovered"

\* The regular files of the tree outside the directory that cannot be listed.
OutsideUnreadable ==
    {f \in Range(scan_tree) : ~(Len(f) > 1 /\ f[1] = unreadable_dir)}

\* C18: when the listing of one directory is denied, discovery still
\* classifies every file outside it, as a candidate or as a rejection, and
\* records the abandoned directory.
C18_PermissionErrorIsLocal ==
    (Discovered /\ MeetsUnreadable) =>
        /\ \A f \in OutsideUnreadable :
              \/ f \in Range(candidate_paths)
              \/ \E i \in 1..Len(Rejections) : Rejections[i].path = f
        /\ \E i \in 1..Len(Rejections) : Rejections[i].path = <<unreadable_dir>>

\* C19: after discovery every regular file under the scan root that is not
\* a candidate has exactly one rejection record, with reason
\* ignored_directory or no_matching_include_rule, and no candidate has one.
C19_RejectionsExactlyOnce ==
    Discovered =>
        \A f \in Range(scan_tree) :
            LET recs == {i \in 1..Len(Rejections) : Rejections[i].path = f}
            IN  IF f \in Range(candidate_paths) THEN recs = {}
                ELSE /\ Cardinality(recs) = 1
                     /\ \A i \in recs :
                           Rejections[i].reason
                               \in {"ignored_directory", "no_matching_include_rule"}

\* A segment of the file's path equals, ignoring case, an ignored-directory
\* name, built-in or user-supplied.
HasIgnoredSegment(f) ==
    \E seg \in Range(f), n \in DEFAULT_IGNORE_DIRS \cup Range(ignore_dir) :
        Lower(seg) = Lower(n)

\* C20: every scanned regular file with a path segment equal, ignoring case,
\* to an ignored-directory name is rejected with reason ignored_directory,
\* is not a candidate, and is never rejected for matching no rule.
C20_IgnoredDirectoryFirst ==
    (Discovered /\ scan_index > Len(all_items_in_scan_root)) =>
        \A k \in 1..Len(all_items_in_scan_root) :
            LET item == all_items_in_scan_root[k]
            IN  (item.is_file /\ HasIgnoredSegment(item.parts)) =>
                    /\ item.parts \notin Range(candidate_paths)
                    /\ \E i \in 1..Len(Rejections) :
                          /\ Rejections[i].path = item.parts
                          /\ Rejections[i].reason = "ignored_directory"
                    /\ \A i \in 1..Len(Rejections) :
                          Rejections[i].path = item.parts =>
                              Rejections[i].reason # "no_matching_include_rule"

\* The stripped, lower-cased items of the explicit include list.
IncludeList == {Lower(Strip(i)) : i \in {j \in Range(cli_args.include_ext) : Strip(j) # ""}}

\* C21: with an explicit include list, a scanned regular file with no
\* ignored path segment is a candidate exactly when its lower-case extension
\* or its lower-case file name is in the list, whatever the preset and the
\* extension exclusions are.
C21_ExplicitIncludeOverrides ==
    (Discovered /\ scan_index > Len(all_items_in_scan_root)
        /\ cli_args.include_ext # <<>>) =>
        \A k \in 1..Len(all_items_in_scan_root) :
            LET item == all_items_in_scan_root[k]
                name == item.parts[Len(item.parts)]
            IN  (item.is_file /\ ~HasIgnoredSegment(item.parts)) =>
                    (item.parts \in Range(candidate_paths)
                        <=> (\/ Lower(Suffix(name)) \in IncludeList
                             \/ Lower(name) \in IncludeList))

\* An include list of .PY with .py excluded and the all_matching_text
\* preset: a.py is a candidate and notes.bin is rejected by the list.
C21_Witness ==
    /\ Discovered
    /\ cli_args.include_ext = <<".PY">>
    /\ cli_args.exclude_ext # <<>>
    /\ cli_args.preset = "all_matching_text"
    /\ <<"a.py">> \in Range(candidate_paths)
    /\ \E i \in 1..Len(Rejections) :
          /\ Rejections[i].path = <<"notes.bin">>
          /\ Rejections[i].reason = "no_matching_include_rule"

Scored == pc = "scored"

\* C22: the combined score of a scored text is 0 when neither score is above
\* 0.001, and otherwise min((sim + kw*beta)/(1 + beta), 1.0), here on
\* numerators over 1 + beta in tenths.
C22_CombinedScoreFormula ==
    Scored =>
        LET beta == loader_out.keyword_boost_factor
            combined == loader_out.scores[1]
            sim == loader_out.scores[2]
            kw == loader_out.scores[3]
            weighted == 10 * sim + kw * beta
            one == 1000 * (10 + beta)
        IN  IF ~(sim > 1) /\ ~(kw > 1) THEN combined = 0
            ELSE /\ weighted <= one => combined = weighted
                 /\ weighted > one => combined = one

\* A non-empty text with both scores above 0.001 and the default boost got
\* the weighted average, which lies strictly between the two scores.
C22_Witness ==
    /\ Scored
    /\ loader_out.content = 1
    /\ loader_out.keyword_boost_factor = DEFAULT_KEYWORD_BOOST
    /\ loader_out.scores[2] = 500
    /\ loader_out.scores[3] = 600
    /\ loader_out.scores[1] = 10 * 500 + 600 * DEFAULT_KEYWORD_BOOST

\* The match type of the specification for a label of the code: the method
\* label tfidf stands for similarity.
SpecMatchType(match_type) ==
    CASE match_type = "tfidf_and_keyword" -> "similarity_and_keyword"
      [] match_type = "tfidf_dominant" -> "similarity_dominant"
      [] OTHER -> match_type

\* C23: with a Query Model, the match type of a scored non-empty text depends
\* only on has_sim (sim >= 0.02) and has_kw (kw >= 0.05): both give
\* similarity_and_keyword, has_kw alone keyword_dominant, has_sim alone
\* similarity_dominant, neither no_discernible_match.
C23_MatchTypeByThresholds ==
    (Scored /\ prompt_tfidf_vector_global # None /\ loader_out.content = 1) =>
        LET has_sim == loader_out.scores[2] >= 20
            has_kw == loader_out.scores[3] >= 50
        IN  SpecMatchType(loader_out.scores[4]) =
                IF has_sim /\ has_kw THEN "similarity_and_keyword"
                ELSE IF has_kw THEN "keyword_dominant"
                ELSE IF has_sim THEN "similarity_dominant"
                ELSE "no_discernible_match"

\* The text d holds every keyword at least as often as the scored text, in
\* the same number of words.
HoldsAtLeast(d) ==
    /\ d.words = loader_file.words
    /\ \A i \in 1..Len(loader_out.keywords) :
          d.occurrences[loader_out.keywords[i]]
              >= loader_file.occurrences[loader_out.keywords[i]]

\* C24: for one keyword list and one word count, a text that holds every
\* keyword of the scored text at least as often never has a lower keyword
\* score than the scored text.
C24_KeywordScoreMonotone ==
    pc = "keyword_scored" =>
        \A d \in KeywordDocs :
            HoldsAtLeast(d) =>
                calculate_keyword_score_of_text(d, loader_out.keywords)
                    >= loader_out.score

\* A text of 60 words with one match of one of two keywords scored
\* 0.3 + 10/61, below the cap of the density term, and a text that also
\* holds the second keyword scores strictly more.
C24_Witness ==
    /\ pc = "keyword_scored"
    /\ loader_out.keywords = <<"alpha", "beta">>
    /\ loader_file.words = 60
    /\ loader_file.occurrences["alpha"] = 1
    /\ loader_file.occurrences["beta"] = 0
    /\ loader_out.score = 6 * 61 + 100 * 2
    /\ \E d \in KeywordDocs :
          /\ HoldsAtLeast(d)
          /\ d.occurrences["beta"] > 0
          /\ calculate_keyword_score_of_text(d, loader_out.keywords)
                 > loader_out.score

\* C25: the transformer applied to its own output, with the same language
\* and flags, returns that output unchanged.
C25_TransformerIdempotent ==
    pc = "transformed_again" => loader_out.content = loader_file

\* C26: once main_cli has handled the prompt, the Query Model is the one
\* built from the prompt at that step and stays so through every worker
\* task, in whatever order the tasks complete, and every later step.
C26_QueryModelBuiltOnce ==
    pc # "start" =>
        /\ actual_search_prompt_content
               = ActualSearchPrompt(search_prompt_or_file_path)
        /\ prompt_tfidf_vector_global
               = initialize_nlp_resources(actual_search_prompt_content)

\* The second task of the pool has completed while the first is still
\* pending, and the prompt vector built at the start is in place.
C26_Witness ==
    /\ pc = "pool"
    /\ Len(pool_results) >= 2
    /\ pool_results[1].kind = "pending"
    /\ pool_results[2].kind = "worker"
    /\ prompt_tfidf_vector_global = "vector"

\* One turn of the packing loop on the record at pack_pos.
PackTurn == pc = "packing" /\ pack_pos <= Len(Ctx) /\ pack_pos' = pack_pos + 1
TurnHeaderWords == header_word_count(Ctx[pack_pos])
TurnContentWords == Ctx[pack_pos].full_content
TurnFitsInFull ==
    current_word_count_for_flat_output + TurnHeaderWords + TurnContentWords
        <= max_flat_tokens

\* C27: in every turn of the packing loop the record is tagged included and
\* the cumulative count grows by header words plus content words exactly
\* when cumulative + header + content <= B; it is then packed whole, without
\* a truncation marker, also when the sum equals B.
C27_FullInclusionIffFits ==
    [][PackTurn =>
          /\ TurnFitsInFull <=>
                 /\ Ctx'[pack_pos].full_content_included_in_flat = "True"
                 /\ current_word_count_for_flat_output' =
                        current_word_count_for_flat_output
                            + TurnHeaderWords + TurnContentWords
          /\ TurnFitsInFull =>
                 flat_content_parts_list' =
                     Append(flat_content_parts_list,
                            [path |-> Ctx[pack_pos].path,
                             content |-> Words(TurnContentWords),
                             marker |-> FALSE])]_vars

\* A record with content was included in full and brought the cumulative
\* count to exactly the budget.
C27_Witness ==
    /\ Packing
    /\ pack_pos > 1
    /\ IsIncluded(pack_pos - 1)
    /\ Ctx[pack_pos - 1].full_content > 0
    /\ current_word_count_for_flat_output = max_flat_tokens

\* C28: a record that does not fit in full is, when cumulative + header < B,
\* packed as its first B - cumulative - header content words with the
\* truncation marker, tagged partial, and ends the loop; when
\* cumulative + header >= B nothing is packed for it.
C28_PartialOrNothing ==
    [][(PackTurn /\ ~TurnFitsInFull) =>
          IF current_word_count_for_flat_output + TurnHeaderWords < max_flat_tokens
          THEN /\ flat_content_parts_list' =
                      Append(flat_content_parts_list,
                             [path |-> Ctx[pack_pos].path,
                              content |-> Words(max_flat_tokens
                                           - current_word_count_for_flat_output
                                           - TurnHeaderWords),
                              marker |-> TRUE])
               /\ Ctx'[pack_pos].full_content_included_in_flat
                      = "partial_due_to_token_limit"
               /\ pc' = "done"
          ELSE /\ flat_content_parts_list' = flat_content_parts_list
               /\ Ctx'[pack_pos].full_content_included_in_flat # "True"
               /\ Ctx'[pack_pos].full_content_included_in_flat
                      # "partial_due_to_token_limit"]_vars

\* Packing ended on a record cut to one word, with another record behind it
\* that was never packed.
C28_Witness ==
    /\ pc = "done"
    /\ pack_pos > 1
    /\ pack_pos <= Len(Ctx)
    /\ IsPartial(pack_pos - 1)
    /\ Len(flat_content_parts_list) = pack_pos - 1
    /\ flat_content_parts_list[pack_pos - 1].marker
    /\ Len(flat_content_parts_list[pack_pos - 1].content) = 1

\* The decodings in their fixed order, each with whether it succeeds on the
\* bytes of the file; no detected encoding means no first attempt. Bytes that
\* are not UTF-8 are not ASCII, and Latin-1 decodes any bytes.
DecodeAttempts ==
    (IF loader_file.detected_encoding = "none" THEN <<>>
     ELSE <<[status |-> "ok_detected_encoding",
             succeeds |-> loader_file.detected_encoding = "decodes"]>>)
    \o <<[status |-> "ok_fallback_UTF-8", succeeds |-> loader_file.utf8_ok],
         [status |-> "ok_fallback_Latin-1", succeeds |-> TRUE],
         [status |-> "ok_fallback_ASCII", succeeds |-> loader_file.utf8_ok]>>

\* C29: for a non-empty file within the size limit whose bytes were read,
\* the loader returns the text of the first decoding that succeeds in the
\* order detected encoding, UTF-8, Latin-1, ASCII, and returns no text with
\* skipped_decode_error exactly when every decoding fails.
C29_DecodingOrder ==
    (pc = "read_done" /\ OpensFile(loader_file, MaxFileSize)
        /\ loader_file.open = "ok") =>
        LET succeeding == {i \in 1..Len(DecodeAttempts) : DecodeAttempts[i].succeeds}
        IN  IF succeeding = {}
            THEN /\ loader_out.content = Absent
                 /\ loader_out.status = "skipped_decode_error"
            ELSE /\ loader_out.content # Absent
                 /\ \E i \in succeeding :
                       /\ \A j \in succeeding : i <= j
                       /\ loader_out.status = DecodeAttempts[i].status

\* The paths discovery classified: the candidates and the rejections.
SeenPaths ==
    Range(candidate_paths)
        \cup {initial_skipped_files_info[k].path :
                 k \in 1..Len(initial_skipped_files_info)}

\* C30: in a completed run every file that discovery classified has exactly
\* one record in in_context and cataloged_only together, and the two lists
\* hold as many records as there are candidates and rejections.
C30_Conservation ==
    pc = "done" =>
        /\ Len(Ctx) + Len(Cat)
               = Len(candidate_paths) + Len(initial_skipped_files_info)
        /\ \A p \in SeenPaths :
              Cardinality({k \in 1..Len(Ctx) : Ctx[k].path = p})
                  + Cardinality({k \in 1..Len(Cat) : Cat[k].path = p}) = 1
        /\ \A k \in 1..Len(Ctx) : Ctx[k].path \in SeenPaths
        /\ \A k \in 1..Len(Cat) : Cat[k].path \in SeenPaths

\* A run completed with a rejection and a skipped candidate in the catalog
\* and a third file in context.
C30_Witness ==
    /\ pc = "done"
    /\ Len(initial_skipped_files_info) = 1
    /\ Len(candidate_paths) = 2
    /\ Len(Ctx) = 1
    /\ \E i, j \in 1..Len(Cat) : Cat[i].kind = "discovery" /\ Cat[j].kind = "worker"

====
